---- MODULE Spec2Model ----
(***************************************************************************)
(* Delivery Note client script of serial_number_manager                    *)
(* (serial_number_manager/public/js/delivery_note.js).                     *)
(*                                                                         *)
(* The validate handler walks the item rows of the form's document and     *)
(* calls fix_serial_number_count on each; that function clears serial_no   *)
(* and serial_and_batch_bundle and shows an alert when the serial_no text  *)
(* holds fewer serial numbers than the row's quantity.                     *)
(*                                                                         *)
(* Encoding of JavaScript values                                           *)
(*   - a text (serial_no) is a sequence of one-character strings; the      *)
(*     missing value (undefined/null) is the sequence NoText;              *)
(*   - item_code and serial_and_batch_bundle are atomic strings, the       *)
(*     missing value is NoValue;                                           *)
(*   - item.qty is <<>> when missing and <<n>> when set, where n counts    *)
(*     units of 1/QtyDenom (so fractional quantities are covered).         *)
(***************************************************************************)
EXTENDS Integers, Sequences, FiniteSets, TLC

\* ------------------------------------------------------------------ bounds
\* longest serial_no text of a one-row document
MaxLen == 4
\* largest quantity (in whole units) of a row
MaxQty == 3
\* quantities are multiples of 1/QtyDenom
QtyDenom == 2
\* number of times the form is validated (saved) in a row
MaxRuns == 2

\* ------------------------------------------------------- JavaScript values
NoText == <<"undefined">>
NoValue == "undefined"
NoQty == <<>>

Alphabet == {"a", ",", " ", "\n"}

Texts(n) == UNION {[1..k -> Alphabet] : k \in 0..n}

\* ------------------------------------------------------------ pure helpers
\* frappe's flt(): a missing value becomes 0
flt(v) == IF v = NoQty THEN 0 ELSE v[1]

\* !item.item_code
NoItemCode(item) == item.item_code \in {NoValue, ""}

\* variant: qty < 1
QtyBelowOne(qty) == qty < 1 * QtyDenom

\* qty <= 1
QtyAtMostOne(qty) == qty <= 1 * QtyDenom

\* (item.serial_no || '')
OrEmpty(v) == IF v = NoText \/ v = <<>> THEN <<>> ELSE v

IsWhitespace(c) == c \in {" ", "\n"}

RECURSIVE trimStart(_)
trimStart(s) ==
    IF s = <<>> THEN <<>>
    ELSE IF IsWhitespace(Head(s)) THEN trimStart(Tail(s))
    ELSE s

RECURSIVE trimEnd(_)
trimEnd(s) ==
    IF s = <<>> THEN <<>>
    ELSE IF IsWhitespace(s[Len(s)]) THEN trimEnd(SubSeq(s, 1, Len(s) - 1))
    ELSE s

\* variant: the text is used untrimmed
trimNothing(s) == s

\* String.prototype.trim
trim(s) == trimEnd(trimStart(s))

\* the separators of split(/[\n,]/)
IsSeparator(c) == c \in {"\n", ","}

RECURSIVE split(_)
split(s) ==
    IF \A k \in 1..Len(s) : ~IsSeparator(s[k]) THEN <<s>>
    ELSE LET k == CHOOSE k \in 1..Len(s) :
                     /\ IsSeparator(s[k])
                     /\ \A j \in 1..(k - 1) : ~IsSeparator(s[j])
         IN  <<SubSeq(s, 1, k - 1)>> \o split(SubSeq(s, k + 1, Len(s)))

NonEmptyPiece(p) == Len(p) > 0

\* variant: the empty pieces are not filtered out
serial_numbersUnfiltered(serial_no_field) ==
    LET pieces == split(serial_no_field)
    IN  [k \in 1..Len(pieces) |-> trim(pieces[k])]

\* serial_no_field.split(/[\n,]/).map(s => s.trim()).filter(s => s.length > 0)
serial_numbers(serial_no_field) ==
    LET pieces == split(serial_no_field)
        trimmed == [k \in 1..Len(pieces) |-> trim(pieces[k])]
    IN  SelectSeq(trimmed, NonEmptyPiece)

\* variant: serial_numbers.length > qty
AlreadyCorrectStrict(count, qty) == count * QtyDenom > qty

\* serial_numbers.length >= qty
AlreadyCorrect(count, qty) == count * QtyDenom >= qty

\* variant: the check that serial_no has content is left out
NeedsClearNoContentCheck(item) ==
    IF NoItemCode(item) THEN FALSE
    ELSE IF QtyAtMostOne(flt(item.qty)) THEN FALSE
    ELSE LET serial_no_field == trim(OrEmpty(item.serial_no))
         IN  IF AlreadyCorrect(Len(serial_numbers(serial_no_field)),
                               flt(item.qty)) THEN FALSE
             ELSE TRUE

\* the decision of fix_serial_number_count: TRUE when the fields are cleared
NeedsClear(item) ==
    IF NoItemCode(item) THEN FALSE
    ELSE IF QtyAtMostOne(flt(item.qty)) THEN FALSE
    ELSE LET serial_no_field == trim(OrEmpty(item.serial_no))
         IN  IF serial_no_field = <<>> THEN FALSE
             ELSE IF AlreadyCorrect(Len(serial_numbers(serial_no_field)),
                                    flt(item.qty)) THEN FALSE
             ELSE TRUE

\* .trim() is called on a value that is not a string
TrimThrows(item) ==
    /\ ~NoItemCode(item)
    /\ ~QtyAtMostOne(flt(item.qty))
    /\ OrEmpty(item.serial_no) = NoText

\* frappe.model.set_value(item.doctype, item.name, fieldname, value)
set_value(d, row, fieldname, value) ==
    [d EXCEPT !.items[row][fieldname] = value]

\* variant: the alert carries the number of serials found, not the quantity
AlertArgsSerialCount(item, row) ==
    [item_code |-> item.item_code,
     qty |-> Len(serial_numbers(trim(OrEmpty(item.serial_no)))),
     row |-> row]

\* the arguments of the alert message
AlertArgs(item, row) ==
    [item_code |-> item.item_code, qty |-> flt(item.qty), row |-> row]

\* variant: frm.doc.items && !frm.doc.items.length
NoItemsEmptyOnly(d) == d.has_items /\ Len(d.items) = 0

\* !frm.doc.items || !frm.doc.items.length
NoItems(d) == ~d.has_items \/ Len(d.items) = 0

\* ------------------------------------------------------------------ inputs
ItemCodes == {NoValue, "", "ITEM-A", "ITEM-B"}
Qtys == {NoQty} \cup {<<n>> : n \in (-1)..(MaxQty * QtyDenom)}
Bundles == {NoValue, "", "SABB-0001"}

\* every row a one-row document can hold
Items ==
    [item_code : ItemCodes, qty : Qtys,
     serial_no : {NoText} \cup Texts(MaxLen), serial_and_batch_bundle : Bundles]

\* the rows of the two-row documents
RowTexts == {NoText, <<>>, <<" ">>, <<"a">>, <<"a", ",", "a">>}
RowItems ==
    [item_code : {NoValue, "ITEM-A", "ITEM-B"},
     qty : {NoQty} \cup {<<q * QtyDenom>> : q \in 1..MaxQty},
     serial_no : RowTexts, serial_and_batch_bundle : {NoValue, "SABB-0001"}]

\* frm.doc.items is missing or empty, holds one row, or holds two rows
IsDoc(d) ==
    \/ d = [has_items |-> FALSE, items |-> <<>>]
    \/ d = [has_items |-> TRUE, items |-> <<>>]
    \/ \E it \in Items : d = [has_items |-> TRUE, items |-> <<it>>]
    \/ \E a \in RowItems, b \in RowItems :
           d = [has_items |-> TRUE, items |-> <<a, b>>]

\* ------------------------------------------------------------------- state
VARIABLES
    doc,        \* frm.doc: has_items (is frm.doc.items set) and the item rows
    pc,         \* position of the validate handler
    idx,        \* row the forEach loop is at
    alerts,     \* alerts shown by the current validate run
    returned,   \* return values of fix_serial_number_count in the current run
    threw,      \* the handler raised an error
    validated,  \* frappe.validated
    run,        \* number of validate runs started
    doc0,       \* the document as it was when the current run started
    orig        \* the document as it was before the first run

vars == <<doc, pc, idx, alerts, returned, threw, validated, run, doc0, orig>>

Init ==
    /\ IsDoc(doc)
    /\ pc = "idle"
    /\ idx = 0
    /\ alerts = <<>>
    /\ returned = <<>>
    /\ threw = FALSE
    /\ validated = TRUE
    /\ run = 0
    /\ doc0 = doc
    /\ orig = doc

\* ----------------------------------------------------------------- actions
\* fix_serial_number_count returns ret: the forEach loop moves on
Return(ret) ==
    /\ returned' = Append(returned, ret)
    /\ idx' = idx + 1
    /\ pc' = IF idx + 1 > Len(doc.items) THEN "done" ELSE "loop"

\* validate: function(frm), up to the start of the forEach loop
Validate ==
    /\ pc \in {"idle", "done"}
    /\ run < MaxRuns
    /\ run' = run + 1
    /\ doc0' = doc
    /\ alerts' = <<>>
    /\ returned' = <<>>
    /\ IF NoItems(doc)
       THEN /\ pc' = "done"
            /\ idx' = 0
            /\ threw' = threw
       ELSE IF ~doc.has_items
       THEN /\ pc' = "error"
            /\ idx' = 0
            /\ threw' = TRUE
       ELSE /\ pc' = "loop"
            /\ idx' = 1
            /\ threw' = threw
    /\ UNCHANGED <<doc, validated, orig>>

\* fix_serial_number_count(item) up to the decision of line 66
CheckItem ==
    /\ pc = "loop"
    /\ LET item == doc.items[idx]
       IN  IF TrimThrows(item)
           THEN /\ pc' = "error"
                /\ threw' = TRUE
                /\ UNCHANGED <<idx, returned>>
           ELSE IF NeedsClear(item)
           THEN /\ pc' = "set_serial_no"
                /\ UNCHANGED <<idx, returned, threw>>
           ELSE /\ Return(FALSE)
                /\ UNCHANGED threw
    /\ UNCHANGED <<doc, alerts, validated, run, doc0, orig>>

\* variant: serial_no is not cleared
ClearSerialNoForgotten ==
    /\ pc = "set_serial_no"
    /\ pc' = "set_bundle"
    /\ UNCHANGED <<doc, idx, alerts, returned, threw, validated, run, doc0, orig>>

\* frappe.model.set_value(item.doctype, item.name, 'serial_no', '')
ClearSerialNo ==
    /\ pc = "set_serial_no"
    /\ doc' = set_value(doc, idx, "serial_no", <<>>)
    /\ pc' = "set_bundle"
    /\ UNCHANGED <<idx, alerts, returned, threw, validated, run, doc0, orig>>

\* variant: serial_and_batch_bundle is not cleared
ClearBundleForgotten ==
    /\ pc = "set_bundle"
    /\ pc' = "show_alert"
    /\ UNCHANGED <<doc, idx, alerts, returned, threw, validated, run, doc0, orig>>

\* frappe.model.set_value(item.doctype, item.name, 'serial_and_batch_bundle', '')
ClearBundle ==
    /\ pc = "set_bundle"
    /\ doc' = set_value(doc, idx, "serial_and_batch_bundle", "")
    /\ pc' = "show_alert"
    /\ UNCHANGED <<idx, alerts, returned, threw, validated, run, doc0, orig>>

\* frappe.show_alert(...) and return true
ShowAlert ==
    /\ pc = "show_alert"
    /\ alerts' = Append(alerts, AlertArgs(doc.items[idx], idx))
    /\ Return(TRUE)
    /\ UNCHANGED <<doc, threw, validated, run, doc0, orig>>

Next ==
    \/ Validate
    \/ CheckItem
    \/ ClearSerialNo
    \/ ClearBundle
    \/ ShowAlert

Spec == Init /\ [][Next]_vars

TypeOK ==
    /\ pc \in {"idle", "loop", "set_serial_no", "set_bundle", "show_alert", "done", "error"}
    /\ run \in 0..MaxRuns
    /\ threw \in BOOLEAN
    /\ validated \in BOOLEAN
    /\ Len(doc.items) = Len(doc0.items)

\* ------------------------------------------------- vocabulary of the claims
\* the row has an item_code
HasCode(item) == item.item_code # NoValue /\ item.item_code # ""

\* the row's quantity, in units of 1/QtyDenom (a missing quantity counts as 0)
QtyOf(item) == IF item.qty = <<>> THEN 0 ELSE item.qty[1]

QtyAboveOne(item) == QtyOf(item) > QtyDenom

\* serial_no is missing, empty or whitespace-only
Blank(item) ==
    \/ item.serial_no = NoText
    \/ \A k \in 1..Len(item.serial_no) : item.serial_no[k] \in {" ", "\n"}

\* serial_no is missing or the empty string
Empty(item) == item.serial_no = NoText \/ item.serial_no = <<>>

\* number of serial numbers entered in serial_no: the segments between
\* commas and line breaks that hold a character other than white space
SerialCount(item) ==
    IF item.serial_no = NoText THEN 0
    ELSE LET s == item.serial_no
             Sep(k) == s[k] \in {",", "\n"}
             Ink(k) == s[k] \notin {",", "\n", " "}
         IN  Cardinality({k \in 1..Len(s) :
                 /\ Ink(k)
                 /\ \A j \in 1..(k - 1) :
                        Ink(j) => \E m \in (j + 1)..(k - 1) : Sep(m)})

FewerThanQty(item) == SerialCount(item) * QtyDenom < QtyOf(item)

Rows == 1..Len(doc0.items)

Unchanged(r) == doc.items[r] = doc0.items[r]

BothCleared(r) ==
    /\ doc.items[r].serial_no = <<>>
    /\ doc.items[r].serial_and_batch_bundle = ""

AlertsFor(r) == {k \in 1..Len(alerts) : alerts[k].row = r}

Untouched(r) == Unchanged(r) /\ AlertsFor(r) = {}

ClearedAndNotified(r) == BothCleared(r) /\ Cardinality(AlertsFor(r)) = 1

InHandler == pc \in {"loop", "set_serial_no", "set_bundle", "show_alert"}

\* how far the running handler has come: four positions per row
Progress ==
    IF pc = "done" THEN 4 * (Len(doc.items) + 1)
    ELSE 4 * idx + (CASE pc = "set_serial_no" -> 1
                      [] pc = "set_bundle" -> 2
                      [] pc = "show_alert" -> 3
                      [] OTHER -> 0)

\* ------------------------------------------------------------------ claims
\* C1: when validate has run, every row that had an item_code, a quantity
\* above 1 and exactly one serial number in serial_no has serial_no = '' and
\* serial_and_batch_bundle = '', whichever row of the document it is.
C1_OneSerialRowsCleared ==
    pc = "done" =>
        \A r \in Rows :
            ( /\ HasCode(doc0.items[r])
              /\ QtyAboveOne(doc0.items[r])
              /\ SerialCount(doc0.items[r]) = 1 ) => BothCleared(r)

C1_Witness ==
    /\ pc = "done"
    /\ run = 1
    /\ Len(doc0.items) = 2
    /\ \A r \in Rows :
          /\ HasCode(doc0.items[r])
          /\ QtyAboveOne(doc0.items[r])
          /\ SerialCount(doc0.items[r]) = 1
          /\ doc0.items[r].serial_and_batch_bundle = "SABB-0001"
          /\ BothCleared(r)

\* C2 as stated, read on the rows that have an item_code: a row is cleared
\* and notified exactly when 1 < number of entered serials < quantity, and is
\* otherwise left unchanged without a notification.
C2_AsStated ==
    pc = "done" =>
        \A r \in Rows :
            HasCode(doc0.items[r]) =>
                IF 1 < SerialCount(doc0.items[r]) /\ FewerThanQty(doc0.items[r])
                THEN ClearedAndNotified(r)
                ELSE Untouched(r)

\* C2 amended: a row is cleared and notified exactly when it has an
\* item_code, a quantity above 1, a serial_no text that is not blank and
\* fewer entered serials than its quantity (one serial, or none when the
\* text holds only separators, included); otherwise it is left unchanged
\* without a notification.
C2_ClearedIffTooFew ==
    pc = "done" =>
        \A r \in Rows :
            IF /\ HasCode(doc0.items[r])
               /\ QtyAboveOne(doc0.items[r])
               /\ ~Blank(doc0.items[r])
               /\ FewerThanQty(doc0.items[r])
            THEN ClearedAndNotified(r)
            ELSE Untouched(r)

C2_Witness ==
    /\ pc = "done"
    /\ run = 1
    /\ Len(doc0.items) = 1
    /\ HasCode(doc0.items[1])
    /\ QtyOf(doc0.items[1]) = 2 * QtyDenom
    /\ doc0.items[1].serial_no = <<"a", ",">>
    /\ ClearedAndNotified(1)

\* C3: a row whose serial_no is missing, empty or whitespace-only is never
\* changed and never gets an alert, whatever its quantity and bundle.
C3_BlankRowsUntouched ==
    /\ \A r \in Rows : Blank(doc0.items[r]) => Untouched(r)
    /\ pc \in {"set_serial_no", "set_bundle", "show_alert"}
           => ~Blank(doc0.items[idx])

C3_Witness ==
    /\ pc = "done"
    /\ run = 1
    /\ Len(doc0.items) = 1
    /\ HasCode(doc0.items[1])
    /\ QtyOf(doc0.items[1]) = 2 * QtyDenom
    /\ doc0.items[1].serial_no = <<" ", "\n">>
    /\ doc0.items[1].serial_and_batch_bundle = "SABB-0001"
    /\ returned = <<FALSE>>

\* C4: every alert belongs to a row whose two fields have been cleared and
\* carries that row's item_code and quantity; no row gets two alerts; the
\* alert is shown only after both fields are cleared; and when validate has
\* run, the alerts, the changed rows and the calls that returned true are
\* equally many.
C4_OneAlertPerClearedRow ==
    /\ \A k \in 1..Len(alerts) :
          /\ alerts[k].row \in Rows
          /\ BothCleared(alerts[k].row)
          /\ ~Unchanged(alerts[k].row)
          /\ alerts[k].item_code = doc0.items[alerts[k].row].item_code
          /\ alerts[k].qty = QtyOf(doc0.items[alerts[k].row])
    /\ \A r \in Rows : Cardinality(AlertsFor(r)) <= 1
    /\ pc = "show_alert" => BothCleared(idx) /\ AlertsFor(idx) = {}
    /\ pc = "done" =>
          /\ \A r \in Rows : ~Unchanged(r) => Cardinality(AlertsFor(r)) = 1
          /\ Len(alerts) = Cardinality({r \in Rows : ~Unchanged(r)})
          /\ Len(alerts) = Cardinality({k \in 1..Len(returned) : returned[k]})

C4_Witness ==
    /\ pc = "done"
    /\ run = 1
    /\ Len(doc0.items) = 2
    /\ Len(alerts) = 2
    /\ alerts[1].item_code = "ITEM-A"
    /\ alerts[2].item_code = "ITEM-B"
    /\ alerts[1].qty # alerts[2].qty
    /\ returned = <<TRUE, TRUE>>

\* C5: validate never raises an error and never marks validation as failed;
\* a field it changes it only empties; a document without items is left as it
\* was with no alert; and a started run comes to its end: the running handler
\* is always at a row of the item list, and every step brings it nearer to
\* the end of that list.
C5_NeverRejects ==
    /\ [](/\ ~threw
          /\ validated
          /\ pc # "error"
          /\ \A r \in Rows :
                /\ doc.items[r].item_code = doc0.items[r].item_code
                /\ doc.items[r].qty = doc0.items[r].qty
                /\ doc.items[r].serial_no \in {doc0.items[r].serial_no, <<>>}
                /\ doc.items[r].serial_and_batch_bundle
                       \in {doc0.items[r].serial_and_batch_bundle, ""}
          /\ (run > 0 /\ Rows = {}) =>
                pc = "done" /\ doc = doc0 /\ alerts = <<>>
          /\ InHandler => idx \in Rows
          /\ Progress <= 4 * (Len(doc.items) + 1))
    /\ [][InHandler => Progress' > Progress]_vars

C5_Witness ==
    /\ pc = "done"
    /\ run = 1
    /\ ~doc0.has_items
    /\ ~threw

\* C6: a row whose number of entered serials is at least its quantity is
\* never changed, gets no alert, and fix_serial_number_count returns false
\* for it.
C6_EnoughSerialsUntouched ==
    \A r \in Rows :
        ~FewerThanQty(doc0.items[r]) =>
            /\ Untouched(r)
            /\ r <= Len(returned) => ~returned[r]
            /\ pc \in {"set_serial_no", "set_bundle", "show_alert"} => idx # r

C6_Witness ==
    /\ pc = "done"
    /\ run = 1
    /\ Len(doc0.items) = 1
    /\ HasCode(doc0.items[1])
    /\ QtyAboveOne(doc0.items[1])
    /\ SerialCount(doc0.items[1]) * QtyDenom > QtyOf(doc0.items[1])
    /\ doc0.items[1].serial_and_batch_bundle = "SABB-0001"
    /\ returned = <<FALSE>>

\* C7: a row without item_code, or with a quantity of at most 1 (0, negative
\* and missing included), is never changed and never gets an alert, even when
\* its serial_no holds text with fewer serials than its quantity.
C7_SmallQtyOrNoCodeUntouched ==
    \A r \in Rows :
        (~HasCode(doc0.items[r]) \/ ~QtyAboveOne(doc0.items[r])) =>
            /\ Untouched(r)
            /\ r <= Len(returned) => ~returned[r]

C7_Witness ==
    /\ pc = "done"
    /\ run = 1
    /\ Len(doc0.items) = 1
    /\ HasCode(doc0.items[1])
    /\ QtyOf(doc0.items[1]) = QtyDenom
    /\ ~Blank(doc0.items[1])
    /\ SerialCount(doc0.items[1]) = 0
    /\ returned = <<FALSE>>

\* C8 as stated: when validate has run, every row with an item_code and a
\* quantity above 1 has an empty serial_no or one with at least as many
\* serials as its quantity.
C8_AsStated ==
    pc = "done" =>
        \A r \in Rows :
            (HasCode(doc.items[r]) /\ QtyAboveOne(doc.items[r])) =>
                Empty(doc.items[r]) \/ ~FewerThanQty(doc.items[r])

\* C8 amended: when validate has run, every row with an item_code and a
\* quantity above 1 has a serial_no that is missing, empty or whitespace-only,
\* or one with at least as many serials as its quantity.
C8_BlankOrEnough ==
    pc = "done" =>
        \A r \in Rows :
            (HasCode(doc.items[r]) /\ QtyAboveOne(doc.items[r])) =>
                Blank(doc.items[r]) \/ ~FewerThanQty(doc.items[r])

C8_Witness ==
    /\ pc = "done"
    /\ run = 1
    /\ Len(doc0.items) = 2
    /\ \A r \in Rows : HasCode(doc.items[r]) /\ QtyAboveOne(doc.items[r])
    /\ ~Unchanged(1)
    /\ Unchanged(2)
    /\ SerialCount(doc.items[2]) = 2

\* C9: a second validate run on the document the first run produced changes
\* no field, shows no alert and never reaches the clearing steps; every call
\* of fix_serial_number_count returns false, and the rows the first run
\* cleared still have an empty serial_no.
C9_SecondRunChangesNothing ==
    run >= 2 =>
        /\ doc = doc0
        /\ alerts = <<>>
        /\ pc \in {"loop", "done"}
        /\ \A k \in 1..Len(returned) : ~returned[k]
        /\ \A r \in Rows :
              doc0.items[r] # orig.items[r] => doc.items[r].serial_no = <<>>

C9_Witness ==
    /\ run = 2
    /\ pc = "done"
    /\ Len(doc.items) = 2
    /\ doc0.items[1] # orig.items[1]
    /\ doc0.items[2] # orig.items[2]
    /\ returned = <<FALSE, FALSE>>
====
